---- MODULE Spec2Model ----
(***************************************************************************)
(* A model of the connectors_blue_green harness:                           *)
(*   collectors.py  ArtifactGenerator (process_line, save_artifacts)       *)
(*   proxy.py       MitmProxy (a mitmdump child process, proxy environment)*)
(*   cli.py         entrypoint (control run, then target run)              *)
(* Two specifications share the variables:                                 *)
(*   CollectorSpec  any sequence of process_line / save_artifacts calls on *)
(*                  one ArtifactGenerator;                                 *)
(*   Spec           the entrypoint command from its first `with` to exit.  *)
(***************************************************************************)
EXTENDS Naturals, Sequences, FiniteSets

VARIABLES
    scenario,   \* entrypoint_args and the input files on disk
    gen,        \* run -> ArtifactGenerator fields
    dir,        \* run -> content of the artifact directory
    obs,        \* run -> history of the calls made on the generator
    pc,         \* position in entrypoint (at "harness" under CollectorSpec)
    proxy,      \* run -> MitmProxy.proxy_process
    environ,    \* os.environ HTTP_PROXY / HTTPS_PROXY
    trust,      \* mitm.crt and mitmproxy-ca.pem on disk
    child,      \* run -> the connector process
    net,        \* the proxies' sessions and the live network
    status      \* control_exit_code, target_exit_code, the command's exit status

vars == <<scenario, gen, dir, obs, pc, proxy, environ, trust, child, net, status>>

Runs == {"control", "target"}

\* ------------------------------------------------------------------ bounds
MaxLines == 3       \* process_line calls on one generator under CollectorSpec
MaxSaves == 2       \* save_artifacts calls on one generator under CollectorSpec
MaxRunLines == 1    \* output lines of one connector process under Spec
MaxReqs == 2        \* HTTP requests of one connector process under Spec
MaxSessionReqs == 3 \* HTTP requests of one connector process under ReplaySpec

\* --------------------------------------------------------- protocol lines
\* airbyte_protocol Type values the model uses
Kinds == {"RECORD", "STATE", "LOG"}

Streams == {"users", "orders"}

\* An option is a sequence of length at most one: <<>> is Python's None.
None == <<>>
Some(x) == <<x>>

NotJson == [json |-> FALSE, type |-> "", record |-> None, body |-> "not json"]
EmptyObject == [json |-> TRUE, type |-> "", record |-> None, body |-> ""]
\* record.data maps each property to the JSON type of its value
RecordLine(s, d) ==
    [json |-> TRUE, type |-> "RECORD", record |-> Some([stream |-> s, data |-> d]), body |-> ""]
RecordNoPayload == [json |-> TRUE, type |-> "RECORD", record |-> None, body |-> ""]
OtherLine(k, b) == [json |-> TRUE, type |-> k, record |-> None, body |-> b]

Lines ==
    { NotJson, EmptyObject, RecordNoPayload,
      RecordLine("users", [id |-> "integer", name |-> "string"]),
      RecordLine("users", [name |-> "integer"]),
      RecordLine("orders", [id |-> "integer"]),
      OtherLine("STATE", "a"), OtherLine("LOG", "a") }

\* parse_raw as it would be if "type" had a default: "{}" parses as a LOG message
parse_raw_default_type(line) ==
    IF ~line.json THEN [ok |-> FALSE, message |-> None]
    ELSE [ok |-> TRUE,
          message |-> Some([type |-> IF line.type \in Kinds THEN line.type ELSE "LOG",
                            record |-> line.record, body |-> line.body])]

\* AirbyteMessage.parse_raw: a pydantic ValidationError for text that is not
\* JSON and for JSON without a valid "type"; "record" is optional.
parse_raw(line) ==
    IF ~line.json \/ line.type \notin Kinds
    THEN [ok |-> FALSE, message |-> None]
    ELSE [ok |-> TRUE,
          message |-> Some([type |-> line.type, record |-> line.record, body |-> line.body])]

\* ------------------------------------------------------ ArtifactGenerator
EmptyMap == [k \in {} |-> 0]

NewGenerator == [stream_builders |-> EmptyMap, message_type_counts |-> EmptyMap,
                 messages_to_persist |-> <<>>]

\* genson SchemaBuilder after add_schema({"type": "object", "properties": {}})
NewBuilder == [required |-> None, properties |-> EmptyMap]

\* add_object as it would be if the last example decided a property's type
add_object_last_type(b, data) ==
    [required |-> IF b.required = None THEN Some(DOMAIN data)
                  ELSE Some(b.required[1] \cap DOMAIN data),
     properties |-> [p \in DOMAIN b.properties \cup DOMAIN data |->
                        IF p \in DOMAIN data THEN {data[p]} ELSE b.properties[p]]]

\* genson SchemaBuilder.add_object on an object schema
add_object(b, data) ==
    [required |-> IF b.required = None THEN Some(DOMAIN data)
                  ELSE Some(b.required[1] \cap DOMAIN data),
     properties |-> [p \in DOMAIN b.properties \cup DOMAIN data |->
                        (IF p \in DOMAIN b.properties THEN b.properties[p] ELSE {})
                        \cup (IF p \in DOMAIN data THEN {data[p]} ELSE {})]]

\* genson SchemaBuilder.to_schema
to_schema(b) ==
    [type |-> "object", properties |-> b.properties,
     required |-> IF b.required = None THEN {} ELSE b.required[1]]

MapPut(m, k, v) == [x \in DOMAIN m \cup {k} |-> IF x = k THEN v ELSE m[x]]

_update_schema(g, record) ==
    LET stream == record.stream
        b == IF stream \in DOMAIN g.stream_builders THEN g.stream_builders[stream]
             ELSE NewBuilder
    IN [g EXCEPT !.stream_builders = MapPut(@, stream, add_object(b, record.data))]

_process_record(g, record) == _update_schema(g, record)

CountMessage(g, kind) ==
    [g EXCEPT !.message_type_counts =
        MapPut(@, kind, (IF kind \in DOMAIN @ THEN @[kind] ELSE 0) + 1)]

\* KeepMessage as it would be with insert(0, message) in place of append
KeepMessageFirst(g, message) ==
    [g EXCEPT !.messages_to_persist = <<message>> \o @]

KeepMessage(g, message) ==
    [g EXCEPT !.messages_to_persist = Append(@, message)]

\* process_line: the generator after the call, and whether the call raised.
\* Only ValidationError is caught; message.record.stream on a RECORD message
\* whose record is None is an AttributeError, raised after the count.
process_line(g, line) ==
    LET parsed == parse_raw(line) IN
    IF ~parsed.ok THEN [gen |-> g, raised |-> FALSE]
    ELSE LET message == parsed.message[1]
             counted == CountMessage(g, message.type)
         IN IF message.type = "RECORD"
            THEN IF message.record = None
                 THEN [gen |-> counted, raised |-> TRUE]
                 ELSE [gen |-> _process_record(counted, message.record[1]), raised |-> FALSE]
            ELSE [gen |-> KeepMessage(counted, message), raised |-> FALSE]

\* ------------------------------------------------- entrypoint_args, inputs
\* The pass-through argument list and the input files it names: path -> content.
\* A file's content is text that is a JSON object (obj) or is not JSON.
JsonFile(o) == [json |-> TRUE, obj |-> o, text |-> ""]
TextFile(t) == [json |-> FALSE, obj |-> EmptyMap, text |-> t]

ConfigObject == [token |-> "secret123", limit |-> "10"]

Scenarios ==
    { [args |-> <<"read", "--config", "c.json", "--catalog", "k.json">>,
       files |-> [p \in {"c.json", "k.json"} |->
                    IF p = "c.json" THEN JsonFile(ConfigObject) ELSE JsonFile(EmptyMap)]],
      [args |-> <<"read", "--config", "c.json", "--catalog", "k.json">>,
       files |-> [p \in {"c.json"} |-> TextFile("not json")]],
      [args |-> <<"read", "--config", "c.json", "--state">>,
       files |-> [p \in {"c.json"} |-> JsonFile(ConfigObject)]] }

\* The releases PyPI lists for the package, each with its upload time, and
\* the versions metadata.yaml may name as dockerImageTag.
PyPIReleases == { [version |-> "1.0.0", upload_time |-> 1],
                  [version |-> "1.1.0", upload_time |-> 2] }

CurrentVersions == {rel.version : rel \in PyPIReleases}

\* find_latest_version without its check against the current version
find_latest_version_unchecked(releases, current_version) ==
    LET highest == CHOOSE rel \in releases :
                      \A other \in releases : other.upload_time <= rel.upload_time
    IN [raised |-> FALSE, version |-> highest.version]

\* find_latest_version: the release uploaded last; NoTargetVersionError if
\* that is the current version.
find_latest_version(releases, current_version) ==
    LET highest == CHOOSE rel \in releases :
                      \A other \in releases : other.upload_time <= rel.upload_time
    IN [raised |-> highest.version = current_version, version |-> highest.version]

\* What entrypoint has when it constructs the two generators: the arguments,
\* the input files, and the two versions (find_latest_version has returned).
Invocations ==
    { [args |-> s.args, files |-> s.files, control_version |-> v,
       target_version |-> find_latest_version(PyPIReleases, v).version] :
        s \in Scenarios,
        v \in {c \in CurrentVersions : ~find_latest_version(PyPIReleases, c).raised} }

get_artifacts_directory_path(root, package_name, package_version, entrypoint_command) ==
    <<root, package_name, package_version, entrypoint_command>>

\* The artifact directory of a run's generator
ArtifactDirectory(sc, r) ==
    get_artifacts_directory_path("artifacts", "airbyte-source",
        IF r = "control" THEN sc.control_version ELSE sc.target_version, sc.args[1])

\* get_option_value_path: the first i with args[i] = option whose next
\* argument is an existing path; args[i + 1] past the end is an IndexError.
RECURSIVE ScanArgs(_, _, _, _)
ScanArgs(args, option, files, i) ==
    IF i > Len(args) THEN [raised |-> FALSE, path |-> None]
    ELSE IF args[i] = option
         THEN IF i + 1 > Len(args) THEN [raised |-> TRUE, path |-> None]
              ELSE IF args[i + 1] \in DOMAIN files
                   THEN [raised |-> FALSE, path |-> Some(args[i + 1])]
                   ELSE ScanArgs(args, option, files, i + 1)
         ELSE ScanArgs(args, option, files, i + 1)

get_option_value_path(sc, option) == ScanArgs(sc.args, option, sc.files, 1)

config_path(sc) == get_option_value_path(sc, "--config")
catalog_path(sc) == get_option_value_path(sc, "--catalog")
state_path(sc) == get_option_value_path(sc, "--state")

\* ------------------------------------------------------- save_artifacts
\* The artifact directory: an absent file is None; messages is the content
\* the file backend holds; stream_schemas maps a stream's file to its schema.
\* exit_code stands for a file holding the run's exit code: no step writes one.
EmptyDir == [entrypoint_args |-> None, messages |-> <<>>, catalog |-> None,
             config |-> None, state |-> None, stream_schemas |-> EmptyMap,
             message_type_counts |-> None, exit_code |-> None]

SaveSteps == <<"entrypoint_args", "messages", "catalog", "config", "state",
               "stream_schemas", "message_type_counts">>

StepNames == {SaveSteps[i] : i \in 1..Len(SaveSteps)}

\* The writes an OSError is injected into; "none" injects no OSError.
Faults == {"none", "messages"}

\* " ".join(entrypoint_args)
RECURSIVE Join(_)
Join(args) ==
    IF Len(args) = 0 THEN <<>>
    ELSE IF Len(args) = 1 THEN args
    ELSE <<Head(args), " ">> \o Join(Tail(args))

\* utils.hash_dict_values: every leaf value replaced by its hash
hash_dict_values(config) == [k \in DOMAIN config |-> <<"sha256", config[k]>>]

\* utils.sanitize_stream_name: the file name of a stream's schema
sanitize_stream_name(stream) == stream

\* FileBackend.write: appends the messages to what the backend's files hold
FileBackendWrite(held, messages) == held \o messages

_get_stream_schemas(g) ==
    [stream \in DOMAIN g.stream_builders |-> to_schema(g.stream_builders[stream])]

\* One call of save_artifacts is a fold over s = [dir, attempted, raised]:
\* a step that raises ends the call, the later steps are not run.
\* fault names the step whose write hits an OSError ("none": no OSError).
Begin(s, step) == [s EXCEPT !.attempted = @ \cup {step}]
Raise(s) == [s EXCEPT !.raised = TRUE]

_save_entrypoint_args(s, sc, fault) ==
    IF s.raised THEN s
    ELSE LET a == Begin(s, "entrypoint_args") IN
         IF fault = "entrypoint_args" THEN Raise(a)
         ELSE [a EXCEPT !.dir.entrypoint_args = Some(Join(sc.args))]

_save_messages(s, g, fault) ==
    IF s.raised THEN s
    ELSE LET a == Begin(s, "messages") IN
         IF fault = "messages" THEN Raise(a)
         ELSE [a EXCEPT !.dir.messages = FileBackendWrite(@, g.messages_to_persist)]

_save_catalog(s, sc, fault) ==
    IF s.raised THEN s
    ELSE LET a == Begin(s, "catalog")
             found == catalog_path(sc)
         IN IF found.raised THEN Raise(a)
            ELSE IF found.path = None THEN a
            ELSE IF fault = "catalog" THEN Raise(a)
            ELSE [a EXCEPT !.dir.catalog = Some(sc.files[found.path[1]])]

_save_config(s, sc, fault) ==
    IF s.raised THEN s
    ELSE LET a == Begin(s, "config")
             found == config_path(sc)
         IN IF found.raised THEN Raise(a)
            ELSE IF found.path = None THEN a
            ELSE IF ~sc.files[found.path[1]].json THEN Raise(a)
            ELSE IF fault = "config" THEN Raise(a)
            ELSE [a EXCEPT !.dir.config =
                     Some(hash_dict_values(sc.files[found.path[1]].obj))]

_save_state(s, sc, fault) ==
    IF s.raised THEN s
    ELSE LET a == Begin(s, "state")
             found == state_path(sc)
         IN IF found.raised THEN Raise(a)
            ELSE IF found.path = None THEN a
            ELSE IF fault = "state" THEN Raise(a)
            ELSE [a EXCEPT !.dir.state = Some(sc.files[found.path[1]])]

_save_stream_schemas(s, g, fault) ==
    IF s.raised THEN s
    ELSE LET a == Begin(s, "stream_schemas")
             stream_schemas == _get_stream_schemas(g)
         IN IF DOMAIN stream_schemas = {} THEN a
            ELSE IF fault = "stream_schemas" THEN Raise(a)
            ELSE [a EXCEPT !.dir.stream_schemas =
                     [f \in DOMAIN @ \cup {sanitize_stream_name(x) : x \in DOMAIN stream_schemas} |->
                        IF \E x \in DOMAIN stream_schemas : sanitize_stream_name(x) = f
                        THEN stream_schemas[CHOOSE x \in DOMAIN stream_schemas :
                                                sanitize_stream_name(x) = f]
                        ELSE @[f]]]

_save_message_type_count(s, g, fault) ==
    IF s.raised THEN s
    ELSE LET a == Begin(s, "message_type_counts") IN
         IF fault = "message_type_counts" THEN Raise(a)
         ELSE [a EXCEPT !.dir.message_type_counts = Some(g.message_type_counts)]

save_artifacts(d, g, sc, fault) ==
    LET s0 == [dir |-> d, attempted |-> {}, raised |-> FALSE]
        s1 == _save_entrypoint_args(s0, sc, fault)
        s2 == _save_messages(s1, g, fault)
        s3 == _save_catalog(s2, sc, fault)
        s4 == _save_config(s3, sc, fault)
        s5 == _save_state(s4, sc, fault)
        s6 == _save_stream_schemas(s5, g, fault)
    IN _save_message_type_count(s6, g, fault)

\* ------------------------------------------------------------ initial state
NoCalls == [fed |-> <<>>, raised_at |-> {}, saves |-> 0, since |-> 0,
            save_raised |-> FALSE, before |-> EmptyDir, attempted |-> {},
            saved |-> FALSE]

ProxyHost == "0.0.0.0"
ControlPort == 8080
TargetPort == 8081
Port(r) == IF r = "control" THEN ControlPort ELSE TargetPort

\* MitmProxy.__init__: session_path is a fresh temporary file, named here by
\* its run; the target proxy is given the control proxy's session_path.
NewProxy(r) ==
    [proxy_port |-> Port(r), session_path |-> r,
     replay_session_path |-> IF r = "control" THEN None ELSE Some("control"),
     proxy_process |-> "none", listening |-> FALSE, flows |-> <<>>, left_scope |-> FALSE]

NoChild == [state |-> "none", lines |-> 0, reqs |-> 0, proxy_env |-> None, argv |-> <<>>]

\* control_version_command, target_version_command: the program of the
\* version, then the arguments given to entrypoint
VersionProgram(r) ==
    IF r = "control" THEN <<"python", "/airbyte/integration_code/main.py">>
    ELSE <<"target_version_bin_path">>

VersionCommand(sc, r) == VersionProgram(r) \o sc.args

InitCommon ==
    /\ scenario \in Invocations
    /\ gen = [r \in Runs |-> NewGenerator]
    /\ dir = [r \in Runs |-> EmptyDir]
    /\ obs = [r \in Runs |-> NoCalls]
    /\ proxy = [r \in Runs |-> NewProxy(r)]
    /\ environ = None
    /\ child = [r \in Runs |-> NoChild]
    /\ net = [session |-> [r \in Runs |-> <<>>], live |-> <<>>,
              got |-> [r \in Runs |-> <<>>]]
    /\ status = [control_exit_code |-> None, target_exit_code |-> None, exit |-> None]

\* ------------------------------------------- calls on one ArtifactGenerator
\* The effect of one process_line call on the generator r and its history
FeedLine(r, line) ==
    LET out == process_line(gen[r], line) IN
    /\ gen' = [gen EXCEPT ![r] = out.gen]
    /\ obs' = [obs EXCEPT ![r].fed = Append(@, line),
                          ![r].raised_at = IF out.raised THEN @ \cup {Len(obs[r].fed) + 1} ELSE @,
                          ![r].since = 0,
                          ![r].save_raised = FALSE]

\* The effect of one save_artifacts call on the directory of r and its
\* history; two generators given the same directory path write the same files.
SaveRun(r, fault) ==
    LET out == save_artifacts(dir[r], gen[r], scenario, fault) IN
    /\ dir' = [r2 \in Runs |->
                IF ArtifactDirectory(scenario, r2) = ArtifactDirectory(scenario, r)
                THEN out.dir ELSE dir[r2]]
    /\ obs' = [obs EXCEPT ![r].saves = @ + 1,
                          ![r].since = @ + 1,
                          ![r].save_raised = @ \/ out.raised,
                          ![r].before = dir[r],
                          ![r].attempted = out.attempted,
                          ![r].saved = ~out.raised]

CallProcessLine(line) ==
    /\ pc.at = "harness"
    /\ Len(obs["control"].fed) < MaxLines
    /\ FeedLine("control", line)
    /\ UNCHANGED <<scenario, dir, pc, proxy, environ, trust, child, net, status>>

CallSaveArtifacts(fault) ==
    /\ pc.at = "harness"
    /\ obs["control"].saves < MaxSaves
    /\ SaveRun("control", fault)
    /\ UNCHANGED <<scenario, gen, pc, proxy, environ, trust, child, net, status>>

CollectorInit ==
    /\ InitCommon
    /\ trust = [crt |-> FALSE, pem |-> FALSE]
    /\ pc = [run |-> "control", at |-> "harness"]

CollectorNext ==
    \/ \E line \in Lines : CallProcessLine(line)
    \/ \E fault \in Faults : CallSaveArtifacts(fault)

CollectorSpec == CollectorInit /\ [][CollectorNext]_vars

\* ---------------------------------------------------------------- MitmProxy
\* mitm_command as it would be if it never passed --server-replay
mitm_command_record_only(p) ==
    [listen_host |-> ProxyHost, listen_port |-> p.proxy_port, set |-> {"hardump"},
     save_stream_file |-> p.session_path, server_replay |-> None]

\* mitm_command: the options handed to mitmdump; set holds the names given
\* with --set. Every other mitmdump option keeps its default.
mitm_command(p) ==
    [listen_host |-> ProxyHost, listen_port |-> p.proxy_port, set |-> {"hardump"},
     save_stream_file |-> p.session_path, server_replay |-> p.replay_session_path]

\* mitmdump's server_replay_kill_extra is off unless the command sets it:
\* a request no loaded flow matches is then passed on to the server.
KillExtra(command) == "server_replay_kill_extra" \in command.set

ProxyAddress(r) == Some(<<ProxyHost, Port(r)>>)

\* Popen.terminate: SIGTERM to a process that has not exited; it is not waited for.
Terminate(p) ==
    [p EXCEPT !.proxy_process = IF @ = "running" THEN "terminating" ELSE @]

\* An exception leaving entrypoint: the command exits with status 1.
Crash ==
    /\ pc' = [run |-> pc.run, at |-> "done"]
    /\ status' = [status EXCEPT !.exit = Some(1)]

\* _start_mitmdump: Popen returns once the process is spawned. bound tells
\* whether mitmdump then gets its listening port; if not, it exits.
\* With --server-replay it loads the flows of that session file.
StartMitmdump(r, bound) ==
    /\ pc = [run |-> r, at |-> "enter"]
    /\ LET command == mitm_command(proxy[r]) IN
       proxy' = [proxy EXCEPT
                    ![r].proxy_process = IF bound THEN "running" ELSE "exited",
                    ![r].listening = bound,
                    ![r].flows = IF command.server_replay = None THEN <<>>
                                 ELSE net.session[command.server_replay[1]]]
    /\ pc' = [run |-> r, at |-> "set_env"]
    /\ UNCHANGED <<scenario, gen, dir, obs, environ, trust, child, net, status>>

\* A started mitmdump writes ~/.mitmproxy/mitmproxy-ca.pem.
PemCreated ==
    /\ ~trust.pem
    /\ \E r \in Runs : proxy[r].proxy_process # "none"
    /\ trust' = [trust EXCEPT !.pem = TRUE]
    /\ UNCHANGED <<scenario, gen, dir, obs, pc, proxy, environ, child, net, status>>

\* _set_proxy_environment, then the rest of __enter__. Without mitm.crt it
\* sleeps until the pem exists, then runs openssl and update-ca-certificates
\* with check=True (converted: whether both succeed); a failure raises out of
\* __enter__, so __exit__ is not called.
SetProxyEnvironment(r, converted) ==
    /\ pc = [run |-> r, at |-> "set_env"]
    /\ trust.crt \/ trust.pem
    /\ trust.crt => converted
    /\ IF converted
       THEN /\ trust' = [trust EXCEPT !.crt = TRUE]
            /\ environ' = ProxyAddress(r)
            /\ pc' = [run |-> r, at |-> "run"]
            /\ UNCHANGED status
       ELSE /\ Crash
            /\ UNCHANGED <<trust, environ>>
    /\ UNCHANGED <<scenario, gen, dir, obs, proxy, child, net>>

\* runners.run_command_and_stream_output spawns the connector, which
\* inherits os.environ.
RunCommand(r) ==
    /\ pc = [run |-> r, at |-> "run"]
    /\ child[r].state = "none"
    /\ child' = [child EXCEPT ![r].state = "running", ![r].proxy_env = environ,
                              ![r].argv = VersionCommand(scenario, r)]
    /\ UNCHANGED <<scenario, gen, dir, obs, pc, proxy, environ, trust, net, status>>

\* One line of the connector's output: the callback is process_line. If it
\* raises, the exception leaves the with block: __exit__ runs, entrypoint ends.
EmitLine(r, line) ==
    /\ pc = [run |-> r, at |-> "run"]
    /\ child[r].state = "running"
    /\ child[r].lines < MaxRunLines
    /\ FeedLine(r, line)
    /\ IF process_line(gen[r], line).raised
       THEN /\ proxy' = [proxy EXCEPT ![r] = [Terminate(@) EXCEPT !.left_scope = TRUE]]
            /\ child' = [child EXCEPT ![r].state = "abandoned", ![r].lines = @ + 1]
            /\ Crash
       ELSE /\ child' = [child EXCEPT ![r].lines = @ + 1]
            /\ UNCHANGED <<proxy, pc, status>>
    /\ UNCHANGED <<scenario, dir, environ, trust, net>>

\* The lines a connector process prints under Spec
RunLines == { RecordNoPayload, OtherLine("STATE", "a"),
              RecordLine("users", [id |-> "integer", name |-> "string"]) }

Urls == {"/a", "/b"}

Run(port) == CHOOSE r \in Runs : Port(r) = port

\* The first flow of flows recorded for url, 0 if there is none
FirstMatch(flows, url) ==
    IF \E i \in 1..Len(flows) : flows[i].url = url
    THEN CHOOSE i \in 1..Len(flows) :
            /\ flows[i].url = url
            /\ \A j \in 1..(i - 1) : flows[j].url # url
    ELSE 0

\* Without as it would be if a replayed flow stayed available
WithoutKeep(flows, i) == flows

Without(flows, i) == [j \in 1..(Len(flows) - 1) |-> IF j < i THEN flows[j] ELSE flows[j + 1]]

\* A request of the connector r, sent to the proxy its HTTP_PROXY names.
\* A proxy that is not listening refuses it. A recording proxy passes it to
\* the server and writes the exchange to its session file. A replaying proxy
\* answers with the first unused flow recorded for the request and drops that
\* flow; with none left it kills the request or passes it on (KillExtra).
Send(r, url) ==
    /\ pc = [run |-> r, at |-> "run"]
    /\ child[r].state = "running"
    /\ child[r].proxy_env # None
    /\ child' = [child EXCEPT ![r].reqs = @ + 1]
    /\ LET via == Run(child[r].proxy_env[1][2])
           command == mitm_command(proxy[via])
           i == FirstMatch(proxy[via].flows, url)
           fresh == [from |-> "server", id |-> Len(net.live) + 1]
           Forward ==
               /\ net' = [net EXCEPT !.live = Append(@, [run |-> r, url |-> url]),
                                     !.session[via] = Append(@, [url |-> url, response |-> fresh]),
                                     !.got[r] = Append(@, fresh)]
               /\ UNCHANGED proxy
       IN IF ~proxy[via].listening
          THEN /\ net' = [net EXCEPT !.got[r] = Append(@, [from |-> "refused", id |-> 0])]
               /\ UNCHANGED proxy
          ELSE IF command.server_replay = None THEN Forward
          ELSE IF i # 0
               THEN /\ net' = [net EXCEPT
                                 !.session[via] = Append(@, proxy[via].flows[i]),
                                 !.got[r] = Append(@, [from |-> "replay",
                                                       id |-> proxy[via].flows[i].response.id])]
                    /\ proxy' = [proxy EXCEPT ![via].flows = Without(@, i)]
               ELSE IF KillExtra(command)
                    THEN /\ net' = [net EXCEPT !.got[r] = Append(@, [from |-> "killed", id |-> 0])]
                         /\ UNCHANGED proxy
                    ELSE Forward
    /\ UNCHANGED <<scenario, gen, dir, obs, pc, environ, trust, status>>

Request(r, url) == child[r].reqs < MaxReqs /\ Send(r, url)

SessionRequest(r, url) == child[r].reqs < MaxSessionReqs /\ Send(r, url)

\* The exit codes a connector process ends with: success, failure
ExitCodes == {0, 1}

\* The connector exits: run_command_and_stream_output returns its exit code.
ChildExits(r, code) ==
    /\ pc = [run |-> r, at |-> "run"]
    /\ child[r].state = "running"
    /\ child' = [child EXCEPT ![r].state = "exited"]
    /\ status' = IF r = "control" THEN [status EXCEPT !.control_exit_code = Some(code)]
                 ELSE [status EXCEPT !.target_exit_code = Some(code)]
    /\ pc' = [run |-> r, at |-> "exit"]
    /\ UNCHANGED <<scenario, gen, dir, obs, proxy, environ, trust, net>>

\* __exit__ at the end of the with block
ExitProxy(r) ==
    /\ pc = [run |-> r, at |-> "exit"]
    /\ proxy' = [proxy EXCEPT ![r] = [Terminate(@) EXCEPT !.left_scope = TRUE]]
    /\ pc' = [run |-> r, at |-> "save"]
    /\ UNCHANGED <<scenario, gen, dir, obs, environ, trust, child, net, status>>

\* The signalled mitmdump exits and closes its socket.
ProxyTerminates(r) ==
    /\ proxy[r].proxy_process = "terminating"
    /\ proxy' = [proxy EXCEPT ![r].proxy_process = "exited", ![r].listening = FALSE]
    /\ UNCHANGED <<scenario, gen, dir, obs, pc, environ, trust, child, net, status>>

\* <run>_artifact_generator.save_artifacts() in entrypoint
Save(r, fault) ==
    /\ pc = [run |-> r, at |-> "save"]
    /\ SaveRun(r, fault)
    /\ IF save_artifacts(dir[r], gen[r], scenario, fault).raised
       THEN Crash
       ELSE /\ pc' = IF r = "control" THEN [run |-> "target", at |-> "enter"]
                     ELSE [run |-> "target", at |-> "sys_exit"]
            /\ UNCHANGED status
    /\ UNCHANGED <<scenario, gen, proxy, environ, trust, child, net>>

\* sys.exit(control_exit_code)
SysExit ==
    /\ pc.at = "sys_exit"
    /\ status' = [status EXCEPT !.exit = status.control_exit_code]
    /\ pc' = [pc EXCEPT !.at = "done"]
    /\ UNCHANGED <<scenario, gen, dir, obs, proxy, environ, trust, child, net>>

\* entrypoint, from the construction of the two generators on
Init ==
    /\ InitCommon
    /\ trust = [crt |-> FALSE, pem |-> FALSE]
    /\ pc = [run |-> "control", at |-> "enter"]

Next ==
    \/ \E r \in Runs, bound \in BOOLEAN : StartMitmdump(r, bound)
    \/ PemCreated
    \/ \E r \in Runs, converted \in BOOLEAN : SetProxyEnvironment(r, converted)
    \/ \E r \in Runs : RunCommand(r)
    \/ \E r \in Runs, line \in RunLines : EmitLine(r, line)
    \/ \E r \in Runs, url \in Urls : Request(r, url)
    \/ \E r \in Runs, code \in ExitCodes : ChildExits(r, code)
    \/ \E r \in Runs : ExitProxy(r)
    \/ \E r \in Runs : ProxyTerminates(r)
    \/ \E r \in Runs, fault \in Faults : Save(r, fault)
    \/ SysExit

Spec == Init /\ [][Next]_vars

\* _set_proxy_environment polls for the pem every 0.1 s: once it may go on,
\* it does. Nothing obliges mitmdump to ever write the pem.
FairSpec ==
    Spec /\ WF_vars(\E r \in Runs, converted \in BOOLEAN : SetProxyEnvironment(r, converted))

\* entrypoint on runs in which both proxies get their port, the certificate
\* is converted, the connectors print nothing and exit 0, and no write fails:
\* what is left open is the requests the two connectors send.
ReplayInit ==
    /\ Init
    /\ scenario.files # EmptyMap /\ \A f \in DOMAIN scenario.files : scenario.files[f].json
    /\ "--state" \notin {scenario.args[i] : i \in 1..Len(scenario.args)}

ReplayNext ==
    \/ \E r \in Runs : StartMitmdump(r, TRUE)
    \/ PemCreated
    \/ \E r \in Runs : SetProxyEnvironment(r, TRUE)
    \/ \E r \in Runs : RunCommand(r)
    \/ \E r \in Runs, url \in Urls : SessionRequest(r, url)
    \/ \E r \in Runs : ChildExits(r, 0)
    \/ \E r \in Runs : ExitProxy(r)
    \/ \E r \in Runs : ProxyTerminates(r)
    \/ \E r \in Runs : Save(r, "none")
    \/ SysExit

ReplaySpec == ReplayInit /\ [][ReplayNext]_vars

\* ================================================================ claims
\* What the claims call a valid protocol line: JSON carrying a message type
IsProtocolLine(line) == line.json /\ line.type \in Kinds
IsRetained(line) == IsProtocolLine(line) /\ line.type # "RECORD"

Tally(fed, kind) ==
    Cardinality({i \in 1..Len(fed) : IsProtocolLine(fed[i]) /\ fed[i].type = kind})

CountOf(g, kind) ==
    IF kind \in DOMAIN g.message_type_counts THEN g.message_type_counts[kind] ELSE 0

RECURSIVE FoldLines(_, _)
FoldLines(g, lines) ==
    IF lines = <<>> THEN g
    ELSE FoldLines(process_line(g, Head(lines)).gen, Tail(lines))

RECURSIVE AsMessages(_)
AsMessages(lines) ==
    IF lines = <<>> THEN <<>>
    ELSE <<[type |-> Head(lines).type, record |-> Head(lines).record,
            body |-> Head(lines).body]>> \o AsMessages(Tail(lines))

HasPayloadOf(line, stream) ==
    /\ IsProtocolLine(line) /\ line.type = "RECORD"
    /\ line.record # None /\ line.record[1].stream = stream

RECURSIVE FoldPayloads(_, _, _)
FoldPayloads(b, lines, stream) ==
    IF lines = <<>> THEN b
    ELSE FoldPayloads(IF HasPayloadOf(Head(lines), stream)
                      THEN add_object(b, Head(lines).record[1].data) ELSE b,
                      Tail(lines), stream)

StreamsFed(fed) == {s \in Streams : \E i \in 1..Len(fed) : HasPayloadOf(fed[i], s)}

\* C3: whatever lines were fed to process_line, the message-kind counts are the
\* per-kind tally of the valid protocol lines alone; the generator is in the
\* state the valid lines by themselves produce (a malformed line changed
\* neither the counts, nor the retained messages, nor the stream schemas), and
\* no call on a malformed line raised.
C3_MalformedLinesIgnored ==
    LET fed == obs["control"].fed
        g == gen["control"]
    IN /\ DOMAIN g.message_type_counts \subseteq Kinds
       /\ \A kind \in Kinds : CountOf(g, kind) = Tally(fed, kind)
       /\ g = FoldLines(NewGenerator, SelectSeq(fed, IsProtocolLine))
       /\ \A i \in obs["control"].raised_at : IsProtocolLine(fed[i])

C3_Witness ==
    LET fed == obs["control"].fed IN
    /\ Len(fed) = 3
    /\ fed[1] = NotJson /\ fed[2].type = "RECORD" /\ fed[2].record # None
    /\ fed[3] = EmptyObject
    /\ CountOf(gen["control"], "RECORD") = 1

\* C4: after any sequence of process_line calls the retained-message buffer is
\* exactly the parsed non-RECORD messages, each once, in arrival order, with no
\* RECORD message in it; every RECORD payload has been folded into the schema
\* builder of its own stream and of no other.
C4_BufferAndSchemas ==
    LET fed == obs["control"].fed
        g == gen["control"]
    IN /\ g.messages_to_persist = AsMessages(SelectSeq(fed, IsRetained))
       /\ \A i \in 1..Len(g.messages_to_persist) : g.messages_to_persist[i].type # "RECORD"
       /\ DOMAIN g.stream_builders = StreamsFed(fed)
       /\ \A s \in DOMAIN g.stream_builders :
            g.stream_builders[s] = FoldPayloads(NewBuilder, fed, s)

C4_Witness ==
    LET fed == obs["control"].fed IN
    /\ Len(fed) = 3
    /\ fed[1] = OtherLine("LOG", "a")
    /\ fed[2].type = "RECORD" /\ fed[2].record # None /\ fed[2].record[1].stream = "orders"
    /\ fed[3] = OtherLine("STATE", "a")
    /\ Len(gen["control"].messages_to_persist) = 2

\* C5: save_artifacts called twice with no process_line call in between, and
\* neither call raising, leaves the artifact directory as the first call left it.
C5_SaveIdempotent ==
    (obs["control"].since >= 2 /\ ~obs["control"].save_raised)
        => dir["control"] = obs["control"].before

\* C6: every call of save_artifacts attempts all seven writes, whichever fails.
C6_AllWritesAttempted ==
    obs["control"].saves >= 1 => obs["control"].attempted = StepNames

Alive(p) == p.proxy_process \in {"running", "terminating"}

\* C1: the target connector process is not started before the control process
\* has exited, the control save_artifacts has completed and the control proxy
\* has been stopped, its process no longer running; the two proxies never
\* run at the same time.
C1_TargetAfterControlStopped ==
    /\ child["target"].state # "none" =>
          /\ child["control"].state = "exited"
          /\ obs["control"].saved
          /\ proxy["control"].left_scope
          /\ ~Alive(proxy["control"])
    /\ ~(Alive(proxy["control"]) /\ Alive(proxy["target"]))

\* C2: no request of the target run, whose proxy replays the control session,
\* goes out to the server as a live call.
C2_NoLiveCallInReplay ==
    \A i \in 1..Len(net.live) : net.live[i].run # "target"

\* C7: once the control run has completed and its artifacts are saved, the
\* command ends with the control run's exit code, whatever the target run does.
C7_ExitStatusIsControlExitCode ==
    (pc.at = "done" /\ obs["control"].saved) => status.exit = status.control_exit_code

\* C8: when the command has finished and the target artifacts are saved, the
\* target artifact directory holds the exit code of the target process.
C8_TargetExitCodeRecorded ==
    (pc.at = "done" /\ status.target_exit_code # None /\ obs["target"].saved)
        => dir["target"].exit_code = status.target_exit_code

\* C9: once a proxy's with block has been left, HTTP_PROXY / HTTPS_PROXY no
\* longer name that proxy's host:port.
C9_ProxyEnvironmentReleased ==
    \A r \in Runs : proxy[r].left_scope => environ # ProxyAddress(r)

\* C10: the proxy environment is never set for the target proxy while the
\* control proxy still runs, and never names a proxy that is not running.
C10_AtMostOneActive ==
    /\ environ = ProxyAddress("target") => ~Alive(proxy["control"])
    /\ \A r \in Runs : environ = ProxyAddress(r) => Alive(proxy[r])

\* C11: starting a proxy always terminates: entrypoint does not stay in
\* _set_proxy_environment forever, also when the pem is never written.
C11_StartTerminates ==
    [](pc.at = "set_env" => <>(pc.at # "set_env"))

\* C12: a connector process only ever runs behind a proxy that got its
\* listening port: a bind failure ends the run before the process is spawned.
C12_NoRunWithoutListeningProxy ==
    \A r \in Runs : child[r].state = "running" => proxy[r].listening

\* C18: when the command has ended, no mitmdump it spawned is still running
\* unsignalled, whichever way its with statement was left.
C18_NoProxyLeftRunning ==
    pc.at = "done" => \A r \in Runs : proxy[r].proxy_process # "running"

\* C19: after any sequence of process_line calls no call has raised, the
\* RECORD count is the number of payloads folded into the stream schemas and
\* the non-RECORD counts add up to the length of the retained-message buffer.
C19_CollectorConsistent ==
    LET fed == obs["control"].fed
        g == gen["control"]
    IN /\ obs["control"].raised_at = {}
       /\ CountOf(g, "RECORD") =
            Cardinality({i \in 1..Len(fed) : \E s \in Streams : HasPayloadOf(fed[i], s)})
       /\ CountOf(g, "STATE") + CountOf(g, "LOG") = Len(g.messages_to_persist)

InputOptions == {"--config", "--catalog", "--state"}

\* C13: whatever the argument list, locating the config, catalog or state
\* file raises nothing: once save_artifacts has been called, no lookup it made
\* has raised (an option that is absent, last, or names a missing path gives
\* no path).
C13_LookupNeverRaises ==
    obs["control"].saves >= 1 =>
        \A option \in InputOptions : ~get_option_value_path(scenario, option).raised

\* C14: the control and the target artifact directories are distinct, and once
\* the control save_artifacts has completed no step changes a file of the
\* control artifact directory, whatever happens to the target run.
C14_ControlArtifactsIntact ==
    [][/\ ArtifactDirectory(scenario, "control") # ArtifactDirectory(scenario, "target")
       /\ obs["control"].saved => dir'["control"] = dir["control"]]_vars

\* the target save_artifacts wrote into its directory and then failed
C14_Witness ==
    /\ obs["control"].saved
    /\ obs["target"].saves = 1 /\ ~obs["target"].saved
    /\ dir["target"].entrypoint_args # None
    /\ pc.at = "done"

\* C15: when the target connector repeats the requests of the control
\* connector in the same order, every one is answered by replay with the
\* response recorded at the same position (repeated URLs included), and each
\* recorded exchange is used once: the unused ones are exactly the rest.
C15_ReplayInOrder ==
    LET recorded == net.session["control"]
        repeated == net.session["target"]
        got == net.got["target"]
    IN (/\ child["target"].state # "none"
        /\ Len(repeated) <= Len(recorded)
        /\ \A i \in 1..Len(repeated) : repeated[i].url = recorded[i].url)
       => /\ Len(got) = Len(repeated)
          /\ \A i \in 1..Len(got) :
                got[i] = [from |-> "replay", id |-> recorded[i].response.id]
          /\ proxy["target"].flows = SubSeq(recorded, Len(repeated) + 1, Len(recorded))

C15_Witness ==
    /\ Len(net.session["control"]) = 3
    /\ net.session["control"][1].url = "/a"
    /\ net.session["control"][2].url = "/b"
    /\ net.session["control"][3].url = "/a"
    /\ Len(net.got["target"]) = 3
    /\ \A i \in 1..3 : net.got["target"][i].from = "replay"
    /\ net.got["target"][3].id = 3

\* The positions in fed of the RECORD lines carrying a payload of the stream
PayloadsAt(fed, stream) == {i \in 1..Len(fed) : HasPayloadOf(fed[i], stream)}

PayloadAt(fed, i) == fed[i].record[1].data

SchemaOfExamples(fed, stream) ==
    LET at == PayloadsAt(fed, stream)
        props == UNION {DOMAIN PayloadAt(fed, i) : i \in at}
    IN [type |-> "object",
        required |-> {p \in props : \A i \in at : p \in DOMAIN PayloadAt(fed, i)},
        properties |-> [p \in props |->
                          {PayloadAt(fed, i)[p] : i \in {j \in at : p \in DOMAIN PayloadAt(fed, j)}}]]

SchemasAreOfExamples ==
    LET fed == obs["control"].fed
        schemas == _get_stream_schemas(gen["control"])
    IN /\ DOMAIN schemas = StreamsFed(fed)
       /\ \A s \in DOMAIN schemas : schemas[s] = SchemaOfExamples(fed, s)
       /\ \A i \in obs["control"].raised_at : fed[i].record = None

SchemasWiden ==
    LET before == _get_stream_schemas(gen["control"])
        after == _get_stream_schemas(gen["control"]')
    IN \A s \in DOMAIN before :
          /\ s \in DOMAIN after
          /\ DOMAIN before[s].properties \subseteq DOMAIN after[s].properties
          /\ \A p \in DOMAIN before[s].properties :
                before[s].properties[p] \subseteq after[s].properties[p]
          /\ after[s].required \subseteq before[s].required \cup
                (IF before[s].properties = EmptyMap THEN DOMAIN after[s].properties ELSE {})

\* C16: the exported schema of every stream has as required properties the
\* properties present in every payload fed for that stream and as the types of
\* a property all the types seen for it; no call on a payload-carrying RECORD
\* line raised; and a further call never removes a stream, a property or a
\* type, nor makes a property required that was not.
C16_SchemaIntersectionUnion == []SchemasAreOfExamples /\ [][SchemasWiden]_vars

C16_Witness ==
    LET fed == obs["control"].fed
        schemas == _get_stream_schemas(gen["control"])
    IN /\ Len(fed) >= 2
       /\ fed[1] = RecordLine("users", [id |-> "integer", name |-> "string"])
       /\ fed[2] = RecordLine("users", [name |-> "integer"])
       /\ schemas["users"].required = {"name"}
       /\ schemas["users"].properties["name"] = {"string", "integer"}
       /\ schemas["users"].properties["id"] = {"integer"}

\* The arguments a started connector process was given after its program
PassedArgs(r) == SubSeq(child[r].argv, Len(VersionProgram(r)) + 1, Len(child[r].argv))

\* C17: a proxy is told to replay exactly when it was built with a session
\* file, and then that file; the control proxy is never told to replay and
\* answers nothing by replay; the target proxy replays the file the control
\* proxy writes, so every replayed answer is one the control proxy recorded;
\* each started connector was given the arguments of the invocation.
C17_RecordThenReplay ==
    /\ \A r \in Runs :
          mitm_command(proxy[r]).server_replay = proxy[r].replay_session_path
    /\ mitm_command(proxy["control"]).server_replay = None
    /\ mitm_command(proxy["target"]).server_replay
          = Some(mitm_command(proxy["control"]).save_stream_file)
    /\ \A i \in 1..Len(net.got["control"]) : net.got["control"][i].from # "replay"
    /\ \A i \in 1..Len(net.got["target"]) :
          net.got["target"][i].from = "replay"
             => \E j \in 1..Len(net.session["control"]) :
                   /\ net.session["control"][j].response.id = net.got["target"][i].id
                   /\ net.session["control"][j].response.from = "server"
    /\ \A r \in Runs : child[r].state # "none" => PassedArgs(r) = scenario.args

C17_Witness ==
    /\ child["control"].state # "none" /\ child["target"].state # "none"
    /\ PassedArgs("control") = PassedArgs("target")
    /\ Len(net.got["control"]) = 2
    /\ Len(net.got["target"]) = 2
    /\ net.got["target"][1] = [from |-> "replay", id |-> 1]
    /\ net.got["target"][2].from = "server"

====
